---- MODULE Spec2Model ----
(***************************************************************************)
(* hchk: command-line client of the healthchecks REST API.                 *)
(* Model of src/src/api.rs (Check, ApiClient) and of src/src/main.rs (the   *)
(* credential resolution and the commands ls, add, pause, ping, del) as a  *)
(* state machine: every action is one call of a method of Check or         *)
(* ApiClient, of get_api_key, or one run of main; the environment (build   *)
(* profile, clock, local time zone, terminal, the service's answers,       *)
(* environment variables, files) is an input of the action.                *)
(*                                                                         *)
(* Text is modelled as a sequence of one-character strings, so that        *)
(* splitting, trimming, substring search and parsing are computed.         *)
(***************************************************************************)
EXTENDS Integers, Sequences, FiniteSets, TLC

VARIABLES client, call, requests, response, stdout, stderr, outcome

vars == <<client, call, requests, response, stdout, stderr, outcome>>

-----------------------------------------------------------------------------
(* Bounds of the model *)

\* longest ping_url given to the methods of Check
MaxLen == 5
\* longest `checks` list the service answers with
MaxChecks == 2

-----------------------------------------------------------------------------
(* Option<T> *)

None == [some |-> FALSE, v |-> <<>>]
Some(x) == [some |-> TRUE, v |-> x]

(* Result of a call that may panic: the value, or the panic *)
Ok(x) == [kind |-> "ok", val |-> x]
Panic == [kind |-> "panic", val |-> <<>>]

(* `let v = x;` followed by F(v): x is evaluated once, then bound *)
Bind(x, F(_)) == CHOOSE y \in {F(v) : v \in {x}} : TRUE

-----------------------------------------------------------------------------
(* Text *)

\* all texts over alphabet a of length at most n
Strs(a, n) == UNION {[1..k -> a] : k \in 0..n}

\* positions of s where pat (one character) stands
Positions(s, pat) == {i \in 1..Len(s) : s[i] = pat}

Max(S) == CHOOSE x \in S : \A y \in S : y <= x
Min(S) == CHOOSE x \in S : \A y \in S : x <= y

\* rsplitn2 that drops the empty pieces, as split(pat).filter(|p| !p.is_empty())
rsplitn2_nonempty(s, pat) ==
    LET e == IF Positions(s, pat) = {} THEN <<s>>
             ELSE LET i == Max(Positions(s, pat))
                  IN  <<SubSeq(s, i + 1, Len(s)), SubSeq(s, 1, i - 1)>>
    IN  SelectSeq(e, LAMBDA piece : piece # <<>>)

\* str::rsplitn(2, pat): the pieces from the right, at most two
rsplitn2(s, pat) ==
    IF Positions(s, pat) = {} THEN <<s>>
    ELSE LET i == Max(Positions(s, pat))
         IN  <<SubSeq(s, i + 1, Len(s)), SubSeq(s, 1, i - 1)>>

\* str::splitn(2, pat): the pieces from the left, at most two
splitn2(s, pat) ==
    IF Positions(s, pat) = {} THEN <<s>>
    ELSE LET i == Min(Positions(s, pat))
         IN  <<SubSeq(s, 1, i - 1), SubSeq(s, i + 1, Len(s))>>

\* Vec::first().unwrap()
first_unwrap(e) == IF Len(e) = 0 THEN Panic ELSE Ok(e[1])

\* str::contains(&str): scan of every offset
RECURSIVE ContainsFrom(_, _, _)
ContainsFrom(s, q, i) ==
    IF i + Len(q) > Len(s) THEN FALSE
    ELSE IF SubSeq(s, i + 1, i + Len(q)) = q THEN TRUE
    ELSE ContainsFrom(s, q, i + 1)

contains(s, q) == ContainsFrom(s, q, 0)

-----------------------------------------------------------------------------
(* Check *)

\* extract_id that splits at the first "/": splitn(2, "/") and last()
extract_id_splitn(c) ==
    LET e == splitn2(c.ping_url, "/")
    IN  IF Len(e) = 0 THEN Panic ELSE Ok(e[Len(e)])

\* Check::extract_id
extract_id(c) == first_unwrap(rsplitn2(c.ping_url, "/"))

\* Check::extract_short_id
extract_short_id(c) ==
    LET id == extract_id(c)
    IN  IF id.kind = "panic" THEN Panic
        ELSE first_unwrap(splitn2(id.val, "-"))

\* Check::id
id(c) == IF ~c.id.some THEN extract_id(c) ELSE Ok(c.id.v)

\* Check::short_id
short_id(c) == IF ~c.short_id.some THEN extract_short_id(c) ELSE Ok(c.short_id.v)

\* fill_ids that resolves nothing
fill_ids_noop(c) == Ok(c)

\* Check::fill_ids
fill_ids(c) ==
    LET i == extract_id(c)
        s == extract_short_id(c)
    IN  IF i.kind = "panic" \/ s.kind = "panic" THEN Panic
        ELSE Ok([c EXCEPT !.id = Some(i.val), !.short_id = Some(s.val)])

-----------------------------------------------------------------------------
(* Timestamps.  An instant is [min, sec]: whole minutes since              *)
(* 1970-01-01T00:00Z and the seconds within the minute.  A DateTime<Local> *)
(* is the instant with the local offset (minutes east of UTC) it is read   *)
(* in: with_timezone keeps the instant and changes only the offset.        *)

Digits == <<"0", "1", "2", "3", "4", "5", "6", "7", "8", "9">>
IsDigit(ch) == \E d \in 1..10 : Digits[d] = ch
DigitVal(ch) == (CHOOSE d \in 1..10 : Digits[d] = ch) - 1

AllDigits(s, i, j) == \A k \in i..j : IsDigit(s[k])

RECURSIVE Num(_, _, _)
Num(s, i, j) == IF j < i THEN 0 ELSE Num(s, i, j - 1) * 10 + DigitVal(s[j])

IsLeap(y) == (y % 4 = 0 /\ y % 100 # 0) \/ y % 400 = 0

DaysInMonth(y, m) ==
    IF m = 2 THEN (IF IsLeap(y) THEN 29 ELSE 28)
    ELSE IF m \in {4, 6, 9, 11} THEN 30 ELSE 31

\* days since 1970-01-01 of a civil date (proleptic Gregorian)
DaysFromCivil(y, m, d) ==
    LET yy  == IF m <= 2 THEN y - 1 ELSE y
        era == yy \div 400
        yoe == yy - era * 400
        mp  == (m + 9) % 12
        doy == (153 * mp + 2) \div 5 + d - 1
        doe == yoe * 365 + yoe \div 4 - yoe \div 100 + doy
    IN  era * 146097 + doe - 719468

\* the civil date <<year, month, day>> of a day number
CivilFromDays(z0) ==
    LET z   == z0 + 719468
        era == z \div 146097
        doe == z - era * 146097
        yoe == (doe - doe \div 1460 + doe \div 36524 - doe \div 146096) \div 365
        doy == doe - (365 * yoe + yoe \div 4 - yoe \div 100)
        mp  == (5 * doy + 2) \div 153
        d   == doy - (153 * mp + 2) \div 5 + 1
        m   == IF mp < 10 THEN mp + 3 ELSE mp - 9
        y   == yoe + era * 400
    IN  <<IF m <= 2 THEN y + 1 ELSE y, m, d>>

\* Utc.with_ymd_and_hms(y, m, d, h, mi, s)
UtcInstant(y, m, d, h, mi, s) ==
    [min |-> DaysFromCivil(y, m, d) * 1440 + h * 60 + mi, sec |-> s]

\* the fields of a date and time "YYYY-MM-DDThh:mm:ss" at the head of s
WellFormedDateTime(s) ==
    /\ Len(s) >= 19
    /\ AllDigits(s, 1, 4) /\ s[5] = "-" /\ AllDigits(s, 6, 7) /\ s[8] = "-"
    /\ AllDigits(s, 9, 10) /\ s[11] = "T"
    /\ AllDigits(s, 12, 13) /\ s[14] = ":" /\ AllDigits(s, 15, 16) /\ s[17] = ":"
    /\ AllDigits(s, 18, 19)
    /\ Num(s, 6, 7) \in 1..12
    /\ Num(s, 9, 10) \in 1..DaysInMonth(Num(s, 1, 4), Num(s, 6, 7))
    /\ Num(s, 12, 13) <= 23 /\ Num(s, 15, 16) <= 59 /\ Num(s, 18, 19) <= 59

\* the offset "Z" or "+hh:mm" / "-hh:mm" that ends s
WellFormedOffset(s) ==
    \/ Len(s) = 20 /\ s[20] = "Z"
    \/ /\ Len(s) = 25 /\ s[20] \in {"+", "-"}
       /\ AllDigits(s, 21, 22) /\ s[23] = ":" /\ AllDigits(s, 24, 25)
       /\ Num(s, 21, 22) <= 23 /\ Num(s, 24, 25) <= 59

OffsetMinutes(s) ==
    IF Len(s) = 20 THEN 0
    ELSE (IF s[20] = "-" THEN -1 ELSE 1) * (Num(s, 21, 22) * 60 + Num(s, 24, 25))

\* str::parse::<DateTime<Utc>>(): Some(instant) or None (the Err)
parse_utc(s) ==
    IF WellFormedDateTime(s) /\ WellFormedOffset(s)
    THEN LET t == UtcInstant(Num(s, 1, 4), Num(s, 6, 7), Num(s, 9, 10),
                             Num(s, 12, 13), Num(s, 15, 16), Num(s, 18, 19))
         IN  Some([t EXCEPT !.min = t.min - OffsetMinutes(s)])
    ELSE None

\* DateTime::with_timezone(&tz)
with_timezone(t, tz) == [min |-> t.min, sec |-> t.sec, off |-> tz]

\* Datelike::year of a DateTime<Local>
LocalDate(dt) == CivilFromDays((dt.min + dt.off) \div 1440)
year(dt) == LocalDate(dt)[1]

\* parse_datetime; tz is the offset of Local::now().timezone()
parse_datetime(ts, tz) ==
    IF ~ts.some
    THEN Ok(with_timezone(UtcInstant(1901, 1, 1, 0, 0, 0), tz))
    ELSE LET dt == parse_utc(ts.v)
         IN  IF ~dt.some THEN Panic ELSE Ok(with_timezone(dt.v, tz))

\* HumanTime::from(dt) formatted: the phrase of the distance of dt from now,
\* as its words (the magnitude, "3 minutes", "125 years", is left as <period>)
HumanTime(dt, now) ==
    IF dt.min = now.min /\ dt.sec = now.sec THEN <<"now">>
    ELSE IF dt.min < now.min \/ (dt.min = now.min /\ dt.sec < now.sec)
         THEN <<"<period>", "ago">>
         ELSE <<"in", "<period>">>

\* humanize_datetime
humanize_datetime(dt, now) == HumanTime(dt, now)

\* Check::last_ping_at
last_ping_at(c, tz) == parse_datetime(c.last_ping, tz)

\* Check::humanized_last_ping_at
humanized_last_ping_at(c, tz, now) ==
    LET dt == last_ping_at(c, tz)
    IN  IF dt.kind = "panic" THEN Panic ELSE Ok(humanize_datetime(dt.val, now))

-----------------------------------------------------------------------------
(* u32.  A value is [hi, lo], two 16-bit limbs: hi * 65536 + lo.           *)

U32(hi, lo) == [hi |-> hi, lo |-> lo]

\* g * 3600 exactly, on three limbs: top * 2^32 + hi * 2^16 + lo
WideMul3600(g) ==
    LET p == g.lo * 3600
        h == g.hi * 3600 + p \div 65536
    IN  [top |-> h \div 65536, hi |-> h % 65536, lo |-> p % 65536]

\* `grace * 3600` on u32: with overflow checks (a debug build) the overflow
\* panics, without (a release build) the product wraps modulo 2^32
u32_mul_3600(g, overflow_checks) ==
    LET w == WideMul3600(g)
    IN  IF w.top > 0 /\ overflow_checks THEN Panic
        ELSE Ok(U32(w.hi, w.lo))

-----------------------------------------------------------------------------
(* HTTP: what the service, or the network, answers to one request *)

NoBody == [kind |-> "none", check |-> None, checks |-> <<>>]
\* a body that is not JSON
NotJson == [kind |-> "notjson", check |-> None, checks |-> <<>>]
\* a JSON value that is neither a check payload nor an object with `checks`
JsonOther == [kind |-> "json_other", check |-> None, checks |-> <<>>]
\* a check payload
JsonCheck(c) == [kind |-> "json_check", check |-> Some(c), checks |-> <<>>]
\* {"checks": [payload, ...]}
JsonChecks(l) == [kind |-> "json_list", check |-> None, checks |-> l]
\* {"checks": v}, v not a list of well-formed check payloads
JsonBadChecks == [kind |-> "json_bad_list", check |-> None, checks |-> <<>>]

NoResponse == [kind |-> "none", status |-> 0, body |-> NoBody]
\* connection, DNS or TLS failure, timeout: send() is an Err
TransportError == [kind |-> "transport_error", status |-> 0, body |-> NoBody]
HttpResponse(status, body) == [kind |-> "response", status |-> status, body |-> body]

Request(method, url, key, body) ==
    [method |-> method, url |-> url, key |-> key, body |-> body]

\* err(msg): the SimpleError; msg is the message as its parts, the text of the
\* code and the cause it formats
Err(msg) == [kind |-> "err", val |-> msg]

\* Response::json::<Check>(): the status is not looked at
json_check(resp) ==
    IF resp.body.kind = "json_check" THEN Ok(resp.body.check.v)
    ELSE Err(<<"<reqwest error>">>)

\* Response::json::<Value>()
json_value(resp) ==
    IF resp.body.kind = "notjson" THEN Err(<<"<reqwest error>">>)
    ELSE Ok(resp.body)

\* checks_of_value that takes a missing or malformed `checks` for no checks
checks_of_value_lenient(v) == Ok(v.checks)

\* serde_json::from_str::<Vec<Check>>(Value::to_string(&v["checks"])):
\* v["checks"] is Null when v has no such field
checks_of_value(v) ==
    IF v.kind = "json_list" THEN Ok(v.checks)
    ELSE Err(<<"JSON: ", "<serde error>">>)

-----------------------------------------------------------------------------
(* ApiClient.  Each method is an operator from the client, the arguments   *)
(* and the environment to [requests, outcome]: the requests sent, in       *)
(* order, and what the method returns (or its panic).                      *)

BASE_URL == <<"h", "t", "t", "p", "s", ":", "/", "/", "h", "e", "a", "l", "t", "h", "c", "h", "e", "c", "k", "s", ".", "i", "o", "/", "a", "p", "i", "/", "v", "1", "/", "c", "h", "e", "c", "k", "s", "/">>

UTC == <<"U", "T", "C">>

\* ApiClient::new
new(base_url, api_key) == [base_url |-> base_url, api_key |-> api_key]

unwrap_or(o, d) == IF o.some THEN o.v ELSE d

\* the json!({...}) of ApiClient::add
add_payload(name, schedule, grace_seconds, tz, tags) ==
    [name     |-> name,
     schedule |-> schedule,
     grace    |-> grace_seconds,
     tags     |-> unwrap_or(tags, <<>>),
     tz       |-> unwrap_or(tz, UTC),
     unique   |-> <<<<"n", "a", "m", "e">>>>]

\* ApiClient::add
add(self, name, schedule, grace, tz, tags, overflow_checks, net) ==
    LET secs == u32_mul_3600(grace, overflow_checks)
    IN  IF secs.kind = "panic"
        THEN [requests |-> <<>>, outcome |-> Panic]
        ELSE [requests |-> <<Request("POST", self.base_url, self.api_key,
                                      Some(add_payload(name, schedule, secs.val, tz, tags)))>>,
              outcome  |-> IF net.kind = "transport_error"
                           THEN Err(<<"request failed with ", "<reqwest error>">>)
                           ELSE json_check(net)]

\* the filter without its second operand: name.contains(q) alone
get_filter_by_name(checks, q) ==
    Ok(SelectSeq(checks, LAMBDA c : contains(c.name, q)))

\* the filter of ApiClient::get: name.contains(q) || id().contains(q)
RECURSIVE get_filter(_, _)
get_filter(checks, q) ==
    IF checks = <<>> THEN Ok(<<>>)
    ELSE LET c    == Head(checks)
             i    == id(c)
             rest == get_filter(Tail(checks), q)
         IN  IF rest.kind = "panic" THEN Panic
             ELSE IF contains(c.name, q) THEN Ok(<<c>> \o rest.val)
             ELSE IF i.kind = "panic" THEN Panic
             ELSE IF contains(i.val, q) THEN Ok(<<c>> \o rest.val)
             ELSE rest

\* the loop of ApiClient::get: for c in &mut checks { c.fill_ids() }
RECURSIVE get_fill(_)
get_fill(checks) ==
    IF checks = <<>> THEN Ok(<<>>)
    ELSE LET c    == fill_ids(Head(checks))
             rest == get_fill(Tail(checks))
         IN  IF c.kind = "panic" \/ rest.kind = "panic" THEN Panic
             ELSE Ok(<<c.val>> \o rest.val)

\* ApiClient::get
get(self, query, net) ==
    LET v        == json_value(net)
        checks   == checks_of_value(v.val)
        filtered == IF query.some THEN get_filter(checks.val, query.v) ELSE checks
    IN  [requests |-> <<Request("GET", self.base_url, self.api_key, None)>>,
         outcome  |->
            IF net.kind = "transport_error" THEN Err(<<"request failed with ", "<reqwest error>">>)
            ELSE IF v.kind = "err" THEN v
            ELSE IF checks.kind = "err" THEN checks
            ELSE IF filtered.kind = "panic" THEN Panic
            ELSE get_fill(filtered.val)]

\* what send() then json::<Check>() return for the answer net
send_json_check(net) ==
    IF net.kind = "transport_error"
    THEN Err(<<"request failed with ", "<reqwest error>">>)
    ELSE json_check(net)

PAUSE == <<"/", "p", "a", "u", "s", "e">>

\* delete that sends the request a second time when the first one fails
delete_retry(self, check, net) ==
    LET i   == id(check)
        req == Request("DELETE", self.base_url \o i.val, self.api_key, None)
    IN  IF i.kind = "panic" THEN [requests |-> <<>>, outcome |-> Panic]
        ELSE [requests |-> IF net.kind = "transport_error" THEN <<req, req>> ELSE <<req>>,
              outcome  |-> send_json_check(net)]

\* ApiClient::delete
delete(self, check, net) ==
    LET i == id(check)
    IN  IF i.kind = "panic" THEN [requests |-> <<>>, outcome |-> Panic]
        ELSE [requests |-> <<Request("DELETE", self.base_url \o i.val, self.api_key, None)>>,
              outcome  |-> send_json_check(net)]

SchemeChars == {"a", "b", "c", "d", "e", "f", "g", "h", "i", "j", "k", "l", "m",
                "n", "o", "p", "q", "r", "s", "t", "u", "v", "w", "x", "y", "z"}

\* IntoUrl of Client::get(&check.ping_url): the text is an absolute URL with
\* a host, scheme "://" host; otherwise send() is an Err and nothing is sent
into_url(u) ==
    \E k \in 1..Len(u) :
        /\ \A j \in 1..k : u[j] \in SchemeChars
        /\ Len(u) >= k + 4
        /\ SubSeq(u, k + 1, k + 3) = <<":", "/", "/">>
        /\ u[k + 4] \notin {"/", ":"}

\* ping on a client built without the default headers
ping_without_key(self, check, net) ==
    IF ~into_url(check.ping_url)
    THEN [requests |-> <<>>,
          outcome  |-> Err(<<"request failed with ", "<reqwest error>">>)]
    ELSE [requests |-> <<Request("GET", check.ping_url, <<>>, None)>>,
          outcome  |-> IF net.kind = "transport_error"
                       THEN Err(<<"request failed with ", "<reqwest error>">>)
                       ELSE Ok(<<>>)]

\* ApiClient::ping: the response is dropped, neither status nor body is read
ping(self, check, net) ==
    IF ~into_url(check.ping_url)
    THEN [requests |-> <<>>,
          outcome  |-> Err(<<"request failed with ", "<reqwest error>">>)]
    ELSE [requests |-> <<Request("GET", check.ping_url, self.api_key, None)>>,
          outcome  |-> IF net.kind = "transport_error"
                       THEN Err(<<"request failed with ", "<reqwest error>">>)
                       ELSE Ok(<<>>)]

\* pause that hands back its argument
pause_returns_argument(self, check, net) ==
    LET i == id(check)
        r == send_json_check(net)
    IN  IF i.kind = "panic" THEN [requests |-> <<>>, outcome |-> Panic]
        ELSE [requests |-> <<Request("POST", self.base_url \o i.val \o PAUSE, self.api_key, None)>>,
              outcome  |-> IF r.kind = "ok" THEN Ok(check) ELSE r]

\* ApiClient::pause
pause(self, check, net) ==
    LET i == id(check)
    IN  IF i.kind = "panic" THEN [requests |-> <<>>, outcome |-> Panic]
        ELSE [requests |-> <<Request("POST", self.base_url \o i.val \o PAUSE, self.api_key, None)>>,
              outcome  |-> send_json_check(net)]

\* println!(fmt, args): one line of standard output
Line(fmt, args) == [fmt |-> fmt, args |-> args]

\* find that takes the last match: checks.last()
find_last(self, id_arg, net) ==
    LET re == get(self, Some(id_arg), net)
    IN  IF re.outcome.kind = "panic"
        THEN [requests |-> re.requests, stdout |-> <<>>, outcome |-> Panic]
        ELSE IF re.outcome.kind = "err"
        THEN [requests |-> re.requests, stdout |-> <<Line("err {:?}", <<re.outcome>>)>>,
              outcome |-> Ok(None)]
        ELSE IF Len(re.outcome.val) = 0
        THEN [requests |-> re.requests, stdout |-> <<Line("{}: check not found", <<id_arg>>)>>,
              outcome |-> Ok(None)]
        ELSE [requests |-> re.requests, stdout |-> <<>>,
              outcome |-> Ok(Some(re.outcome.val[Len(re.outcome.val)]))]

\* ApiClient::find; the parameter `id` of the code is id_arg here
find(self, id_arg, net) ==
    LET re == get(self, Some(id_arg), net)
    IN  IF re.outcome.kind = "panic"
        THEN [requests |-> re.requests, stdout |-> <<>>, outcome |-> Panic]
        ELSE IF re.outcome.kind = "err"
        THEN [requests |-> re.requests, stdout |-> <<Line("err {:?}", <<re.outcome>>)>>,
              outcome |-> Ok(None)]
        ELSE IF Len(re.outcome.val) = 0
        THEN [requests |-> re.requests, stdout |-> <<Line("{}: check not found", <<id_arg>>)>>,
              outcome |-> Ok(None)]
        ELSE [requests |-> re.requests, stdout |-> <<>>,
              outcome |-> Ok(Some(re.outcome.val[1]))]

-----------------------------------------------------------------------------
(* The credential (main.rs).  The environment of the process is env, the   *)
(* value of each variable, and fs, the file at each path.                  *)

EnvUnset == [kind |-> "unset", v |-> <<>>]
\* set, to a value that is not valid Unicode
EnvNotUnicode == [kind |-> "not_unicode", v |-> <<>>]
EnvSet(v) == [kind |-> "set", v |-> v]

\* std::env::var(name): Ok(value), or the Err(VarError)
env_var(env, name) ==
    IF env[name].kind = "set" THEN Ok(env[name].v) ELSE Err(<<"<VarError>">>)

NoFile == [kind |-> "absent", contents |-> <<>>]
Directory == [kind |-> "dir", contents |-> <<>>]
RegularFile(contents) == [kind |-> "file", contents |-> contents]
\* a regular file that File::open refuses, or that is gone by then
UnopenableFile == [kind |-> "file_unopenable", contents |-> <<>>]
\* a regular file whose bytes are not UTF-8: read_to_string fails
NotUtf8File == [kind |-> "file_not_utf8", contents |-> <<>>]

file_at(fs, path) == IF path \in DOMAIN fs THEN fs[path] ELSE NoFile

\* Path::is_file
is_file(fs, path) == file_at(fs, path).kind \in {"file", "file_unopenable", "file_not_utf8"}

\* process::exit(code)
Exit(code) == [kind |-> "exit", val |-> code]

API_KEY_ENV == "HCHK_API_KEY"

\* keyfile_path: [stdout, outcome], the path or the exit of the process
keyfile_path(env) ==
    LET home == env_var(env, "HOME")
    IN  IF home.kind = "err"
        THEN [stdout  |-> <<Line("empty HOME environment variable", <<>>)>>,
              outcome |-> Exit(1)]
        ELSE [stdout  |-> <<>>,
              outcome |-> Ok(home.val \o <<"/", ".", "h", "c", "h", "k">>)]

\* get_api_key that reads the key file first and the variable after it
get_api_key_file_first(env, fs) ==
    LET key  == env_var(env, API_KEY_ENV)
        path == keyfile_path(env)
        file == file_at(fs, path.outcome.val)
    IN  IF path.outcome.kind = "ok" /\ file.kind = "file"
        THEN [stdout |-> <<>>, outcome |-> Ok(file.contents)]
        ELSE IF key.kind = "err"
        THEN [stdout  |-> <<>>,
              outcome |-> Err(<<"Use setkey command or set ", API_KEY_ENV,
                                " environment variable">>)]
        ELSE [stdout |-> <<>>, outcome |-> Ok(key.val)]

\* get_api_key: [stdout, outcome]
get_api_key(env, fs) ==
    LET key  == env_var(env, API_KEY_ENV)
        path == keyfile_path(env)
        file == file_at(fs, path.outcome.val)
    IN  IF key.kind = "err" /\ path.outcome.kind = "exit" THEN path
        ELSE IF key.kind = "err" /\ is_file(fs, path.outcome.val)
        THEN [stdout  |-> <<>>,
              outcome |-> IF file.kind = "file" THEN Ok(file.contents)
                          ELSE Err(<<"<io error>">>)]
        ELSE IF key.kind = "err"
        THEN [stdout  |-> <<>>,
              outcome |-> Err(<<"Use setkey command or set ", API_KEY_ENV,
                                " environment variable">>)]
        ELSE [stdout |-> <<>>, outcome |-> Ok(key.val)]

-----------------------------------------------------------------------------
(* The commands (main.rs).  Each is an operator to [requests, stdout,      *)
(* outcome]; net1 answers the first request the command sends, net2 the    *)
(* second.  An Err is the Box<dyn Error> the command returns.              *)

\* the `?` on find(id).ok_or_else(|| format!("{}: check not found", id))
not_found(id_arg) == Err(<<id_arg, ": check not found">>)

\* what client.pause(&c)?, client.ping(&c)?, client.delete(&c)? leave of the
\* command: Ok(()) or the failure f of the method r the command ends with
cmd_end(f, r) ==
    Bind(r, LAMBDA m :
        [requests |-> f.requests \o m.requests,
         stdout   |-> f.stdout,
         outcome  |-> IF m.outcome.kind = "ok" THEN Ok(<<>>) ELSE m.outcome])

\* cmd_pause_check without the test of the status
cmd_pause_check_always(self, id_opt, net1, net2) ==
    IF ~id_opt.some
    THEN [requests |-> <<>>, stdout |-> <<>>, outcome |-> Err(<<"ID is required">>)]
    ELSE Bind(find(self, id_opt.v, net1), LAMBDA f :
             IF f.outcome.kind = "panic" THEN f
             ELSE IF ~f.outcome.val.some
             THEN [requests |-> f.requests, stdout |-> f.stdout,
                   outcome |-> not_found(id_opt.v)]
             ELSE cmd_end(f, pause(self, f.outcome.val.v, net2)))

\* cmd_pause_check
cmd_pause_check(self, id_opt, net1, net2) ==
    IF ~id_opt.some
    THEN [requests |-> <<>>, stdout |-> <<>>, outcome |-> Err(<<"ID is required">>)]
    ELSE Bind(find(self, id_opt.v, net1), LAMBDA f :
             IF f.outcome.kind = "panic" THEN f
             ELSE IF ~f.outcome.val.some
             THEN [requests |-> f.requests, stdout |-> f.stdout,
                   outcome |-> not_found(id_opt.v)]
             ELSE IF f.outcome.val.v.status = "paused"
             THEN [requests |-> f.requests,
                   stdout   |-> f.stdout \o
                                <<Line("{}: check is already paused", <<f.outcome.val.v.name>>)>>,
                   outcome  |-> Ok(<<>>)]
             ELSE cmd_end(f, pause(self, f.outcome.val.v, net2)))

\* cmd_ping_check
cmd_ping_check(self, id_opt, net1, net2) ==
    IF ~id_opt.some
    THEN [requests |-> <<>>, stdout |-> <<>>, outcome |-> Err(<<"ID is required">>)]
    ELSE Bind(find(self, id_opt.v, net1), LAMBDA f :
             IF f.outcome.kind = "panic" THEN f
             ELSE IF ~f.outcome.val.some
             THEN [requests |-> f.requests, stdout |-> f.stdout,
                   outcome |-> not_found(id_opt.v)]
             ELSE cmd_end(f, ping(self, f.outcome.val.v, net2)))

\* the DELETE requests of every check of l, in order
RECURSIVE delete_each(_, _, _)
delete_each(self, l, net) ==
    IF l = <<>> THEN <<>>
    ELSE delete(self, Head(l), net).requests \o delete_each(self, Tail(l), net)

\* cmd_delete_check that deletes every match of the listing, not the first
cmd_delete_check_all(self, id_opt, net1, net2) ==
    IF ~id_opt.some
    THEN [requests |-> <<>>, stdout |-> <<>>, outcome |-> Err(<<"ID is required">>)]
    ELSE Bind(find(self, id_opt.v, net1), LAMBDA f :
         Bind(get(self, id_opt, net1), LAMBDA g :
             IF f.outcome.kind = "panic" THEN f
             ELSE IF ~f.outcome.val.some
             THEN [requests |-> f.requests, stdout |-> f.stdout,
                   outcome |-> not_found(id_opt.v)]
             ELSE [requests |-> f.requests \o delete_each(self, g.outcome.val, net2),
                   stdout   |-> f.stdout,
                   outcome  |-> cmd_end(f, delete(self, f.outcome.val.v, net2)).outcome]))

\* cmd_delete_check
cmd_delete_check(self, id_opt, net1, net2) ==
    IF ~id_opt.some
    THEN [requests |-> <<>>, stdout |-> <<>>, outcome |-> Err(<<"ID is required">>)]
    ELSE Bind(find(self, id_opt.v, net1), LAMBDA f :
             IF f.outcome.kind = "panic" THEN f
             ELSE IF ~f.outcome.val.some
             THEN [requests |-> f.requests, stdout |-> f.stdout,
                   outcome |-> not_found(id_opt.v)]
             ELSE cmd_end(f, delete(self, f.outcome.val.v, net2)))

\* the digits of s from position i on, added to acc: Some(u32), or None for
\* a character that is no digit and for a value above 2^32 - 1
RECURSIVE parse_digits(_, _, _)
parse_digits(s, i, acc) ==
    IF i > Len(s) THEN Some(acc)
    ELSE IF ~IsDigit(s[i]) THEN None
    ELSE LET l == acc.lo * 10 + DigitVal(s[i])
             h == acc.hi * 10 + l \div 65536
         IN  IF h > 65535 THEN None
             ELSE parse_digits(s, i + 1, U32(h, l % 65536))

\* str::parse::<u32>(): Some(value) or None (the Err); one "+" may lead
parse_u32(s) ==
    LET digits == IF s # <<>> /\ s[1] = "+" THEN Tail(s) ELSE s
    IN  IF digits = <<>> THEN None ELSE parse_digits(digits, 1, U32(0, 0))

\* cmd_add_check
cmd_add_check(self, name, schedule, grace, tz, tags, overflow_checks, net1) ==
    LET grace_s == unwrap_or(grace, <<"1">>)
        grace_v == parse_u32(grace_s)
    IN  IF ~name.some
        THEN [requests |-> <<>>, stdout |-> <<>>, outcome |-> Err(<<"Name is required">>)]
        ELSE IF ~schedule.some
        THEN [requests |-> <<>>, stdout |-> <<>>, outcome |-> Err(<<"Schedule is required">>)]
        ELSE IF ~grace_v.some
        THEN [requests |-> <<>>, stdout |-> <<>>,
              outcome |-> Err(<<"Invalid grace period: ", grace_s>>)]
        ELSE Bind(add(self, name.v, schedule.v, grace_v.v, tz, tags, overflow_checks, net1),
                  LAMBDA r :
             IF r.outcome.kind # "ok"
             THEN [requests |-> r.requests, stdout |-> <<>>, outcome |-> r.outcome]
             ELSE [requests |-> r.requests,
                   stdout   |-> <<Line("{} {} {}", <<r.outcome.val.name, id(r.outcome.val).val,
                                                     r.outcome.val.ping_url>>)>>,
                   outcome  |-> Ok(<<>>)])

\* the characters of the names, in the order of their bytes
ByteOrder == <<" ", "-", "A", "a", "b", "c", "x">>
Byte(ch) == CHOOSE i \in 1..Len(ByteOrder) : ByteOrder[i] = ch

\* a.name.cmp(&b.name) is not Greater: the order of the bytes
RECURSIVE name_le(_, _)
name_le(a, b) ==
    IF a = <<>> THEN TRUE
    ELSE IF b = <<>> THEN FALSE
    ELSE IF Head(a) # Head(b) THEN Byte(Head(a)) < Byte(Head(b))
    ELSE name_le(Tail(a), Tail(b))

\* c put into the sorted list l, after the checks that do not come after it
RECURSIVE sort_insert(_, _)
sort_insert(l, c) ==
    IF l = <<>> THEN <<c>>
    ELSE IF name_le(Head(l).name, c.name) THEN <<Head(l)>> \o sort_insert(Tail(l), c)
    ELSE <<c>> \o l

\* checks.sort_by(|a, b| a.name.cmp(&b.name)): a stable sort
RECURSIVE sort_by_name(_)
sort_by_name(l) ==
    IF l = <<>> THEN <<>>
    ELSE sort_insert(sort_by_name(SubSeq(l, 1, Len(l) - 1)), l[Len(l)])

LsFlags(up, down, long) == [up |-> up, down |-> down, long |-> long]

\* the loop of cmd_list_checks: one line for each check, until one panics
\* (the colour of the status is left out)
RECURSIVE list_lines(_, _, _, _)
list_lines(checks, flags, tz, now) ==
    IF checks = <<>> THEN [stdout |-> <<>>, outcome |-> Ok(<<>>)]
    ELSE LET c == Head(checks)
         IN  IF flags.long
             THEN Bind(list_lines(Tail(checks), flags, tz, now), LAMBDA rest :
                  [stdout |-> <<Line("{}", <<c>>)>> \o rest.stdout, outcome |-> rest.outcome])
             ELSE Bind(short_id(c), LAMBDA sid :
                  Bind(humanized_last_ping_at(c, tz, now), LAMBDA lp :
                  IF sid.kind = "panic" \/ lp.kind = "panic"
                  THEN [stdout |-> <<>>, outcome |-> Panic]
                  ELSE Bind(list_lines(Tail(checks), flags, tz, now), LAMBDA rest :
                       [stdout  |-> <<Line("{status} {id} {name} {last_ping}",
                                           <<c.status, sid.val, c.name, lp.val>>)>>
                                    \o rest.stdout,
                        outcome |-> rest.outcome])))

\* cmd_list_checks; tty is stdout_isatty(), tz and now the local time zone and
\* the clock
cmd_list_checks(self, flags, query, net1, tty, tz, now) ==
    Bind(get(self, query, net1), LAMBDA result :
        IF result.outcome.kind # "ok"
        THEN [requests |-> result.requests, stdout |-> <<>>, outcome |-> result.outcome]
        ELSE Bind(sort_by_name(result.outcome.val), LAMBDA sorted :
             Bind(IF flags.up \/ flags.down
                  THEN SelectSeq(sorted, LAMBDA c : \/ flags.down /\ c.status = "down"
                                                    \/ flags.up /\ c.status = "up")
                  ELSE sorted, LAMBDA checks :
             Bind(list_lines(checks, flags, tz, now), LAMBDA lines :
                 [requests |-> result.requests,
                  stdout   |-> (IF tty THEN <<Line("total {:?}", <<Len(checks)>>)>> ELSE <<>>)
                               \o lines.stdout,
                  outcome  |-> lines.outcome]))))

\* api_key.parse().unwrap() of ApiClient::new: a header value holds no
\* control character
header_value(api_key) ==
    IF \E i \in 1..Len(api_key) : api_key[i] \in {"\n", "\r"} THEN Panic ELSE Ok(api_key)

\* the arguments of a command, as clap hands them over
Args(id_arg, name, schedule, grace, tz, tags, query, flags) ==
    [id |-> id_arg, name |-> name, schedule |-> schedule, grace |-> grace,
     tz |-> tz, tags |-> tags, query |-> query, flags |-> flags]

\* what the process meets: the answers to its first and second request, the
\* build profile, the terminal, the local time zone and the clock
World(net1, net2, overflow_checks, tty, tz, now) ==
    [net1 |-> net1, net2 |-> net2, overflow_checks |-> overflow_checks,
     tty |-> tty, tz |-> tz, now |-> now]

\* run, for the commands List, Add, Ping, Pause, Delete: [client, requests,
\* stdout, outcome]; client is the ApiClient built, if one is
run(cmd, args, env, fs, w) ==
    Bind(get_api_key(env, fs), LAMBDA key :
        IF key.outcome.kind # "ok"
        THEN [client |-> None, requests |-> <<>>, stdout |-> key.stdout,
              outcome |-> key.outcome]
        ELSE IF header_value(key.outcome.val).kind = "panic"
        THEN [client |-> None, requests |-> <<>>, stdout |-> <<>>, outcome |-> Panic]
        ELSE Bind(new(BASE_URL, key.outcome.val), LAMBDA c :
             Bind(IF cmd = "ls"
                  THEN cmd_list_checks(c, args.flags, args.query, w.net1, w.tty, w.tz, w.now)
                  ELSE IF cmd = "add"
                  THEN cmd_add_check(c, args.name, args.schedule, args.grace, args.tz,
                                     args.tags, w.overflow_checks, w.net1)
                  ELSE IF cmd = "ping" THEN cmd_ping_check(c, args.id, w.net1, w.net2)
                  ELSE IF cmd = "pause" THEN cmd_pause_check(c, args.id, w.net1, w.net2)
                  ELSE cmd_delete_check(c, args.id, w.net1, w.net2), LAMBDA r :
                 [client |-> Some(c), requests |-> r.requests, stdout |-> r.stdout,
                  outcome |-> r.outcome])))

\* main, from the subcommand on: [client, requests, stdout, stderr, outcome];
\* the outcome is the exit of the process (101 is the exit code of a panic)
main(cmd, args, env, fs, w) ==
    Bind(run(cmd, args, env, fs, w), LAMBDA result :
        [client   |-> result.client,
         requests |-> result.requests,
         stdout   |-> result.stdout,
         stderr   |-> IF result.outcome.kind = "err"
                      THEN <<Line("Error: {}", <<result.outcome>>)>>
                      ELSE IF result.outcome.kind = "panic"
                      THEN <<Line("<panic message>", <<>>)>>
                      ELSE <<>>,
         outcome  |-> IF result.outcome.kind = "err" THEN Exit(1)
                      ELSE IF result.outcome.kind = "panic" THEN Exit(101)
                      ELSE IF result.outcome.kind = "exit" THEN result.outcome
                      ELSE Exit(0)])

-----------------------------------------------------------------------------
(* The inputs *)

Check(i, s, name, ping_url, last_ping, status) ==
    [id |-> i, short_id |-> s, name |-> name, ping_url |-> ping_url,
     last_ping |-> last_ping, status |-> status]

TS_2024 == <<"2","0","2","4","-","0","1","-","1","5","T","1","0",":","3","0",":","0","0","+","0","0",":","0","0">>
TS_1949 == <<"1","9","4","9","-","1","2","-","3","1","T","2","3",":","5","9",":","5","9","Z">>
TS_1950_PLUS1 == <<"1","9","5","0","-","0","1","-","0","1","T","0","0",":","3","0",":","0","0","+","0","1",":","0","0">>
TS_BAD_MONTH == <<"2","0","2","4","-","1","3","-","0","1","T","0","0",":","0","0",":","0","0","Z">>
TS_GARBAGE == <<"s","o","o","n">>

\* the checks whose id() and short_id() are called
IdChecks ==
    {Check(i, s, <<"x">>, u, None, "up") :
        i \in {None, Some(<<"b", "-", "c">>), Some(<<>>)},
        s \in {None, Some(<<"s">>)},
        u \in Strs({"/", "-", "a"}, MaxLen)}

\* the checks whose last_ping_at() and humanized_last_ping_at() are called
TsChecks ==
    {Check(None, None, <<"x">>, <<"h", "/", "a">>, t, "up") :
        t \in {None, Some(<<>>), Some(TS_2024), Some(TS_1949), Some(TS_1950_PLUS1),
               Some(TS_BAD_MONTH), Some(TS_GARBAGE)}}

\* offsets of the local time zone, minutes east of UTC
LocalOffsets == {-60, 0, 60}

\* the clock at the call
Clocks == {UtcInstant(2024, 1, 15, 10, 30, 0), UtcInstant(2026, 11, 1, 0, 0, 0)}

ApiKeys == {<<"k", "1">>, <<"k", "2">>}

Names == {<<>>, <<" ">>, <<"x">>, <<" ", "x">>}
Schedules == {<<"0", " ", "*", " ", "*", " ", "*", " ", "*">>}
\* 0, 1, 2, 8760, 8761, 1193046, 1193047 (the first whose product passes 2^32 - 1), 2^32 - 1
GraceHours == {U32(0, 0), U32(0, 1), U32(0, 2), U32(0, 8760), U32(0, 8761),
               U32(18, 13398), U32(18, 13399), U32(65535, 65535)}
TzArgs == {None, Some(<<"E", "T">>)}
TagArgs == {None, Some(<<"p">>)}

Statuses == {200, 204, 403, 500}

\* the payloads the service answers a creation with
AddedChecks ==
    {Check(None, None, <<"x">>, <<"h", "/", "a", "-", "b">>, None, "up"),
     Check(Some(<<"b", "-", "c">>), None, <<"x">>, <<"h", "/", "a", "-", "b">>, None, "up")}

\* the payloads of a listing
ListedChecks ==
    {Check(None, None, <<"a", "b">>, <<"h", "/", "c", "-", "d">>, None, "up"),
     Check(None, None, <<"A", "b">>, <<"h", ":", "/", "/", "p", "/", "a", "-", "c">>,
           Some(TS_2024), "down"),
     Check(Some(<<"a", "-", "z">>), None, <<"c">>, <<"h", "/", "b">>, None, "paused"),
     Check(None, None, <<>>, <<>>, None, "up"),
     Check(None, Some(<<"s">>), <<"b", "-">>, <<"h", "/", "a", "-", "-", "A">>,
           Some(TS_GARBAGE), "grace")}

Queries == {None, Some(<<>>), Some(<<"a">>), Some(<<"A">>), Some(<<"b">>), Some(<<"a", "-">>)}

\* all lists over S of length at most n
Lists(S, n) == UNION {[1..k -> S] : k \in 0..n}

CheckResponses ==
    {TransportError} \cup
    {HttpResponse(s, b) : s \in Statuses,
                          b \in {NotJson, JsonOther} \cup {JsonCheck(c) : c \in AddedChecks}}

ListResponses ==
    {TransportError} \cup
    {HttpResponse(s, b) : s \in Statuses,
                          b \in {NotJson, JsonOther, JsonBadChecks}
                                \cup {JsonChecks(l) : l \in Lists(ListedChecks, MaxChecks)}}

\* the checks given to delete, pause and ping: as a listing returns them
\* (id and short_id resolved), as a payload with an identifier of its own, and
\* as a draft with ping_url alone
ActedChecks ==
    {Check(Some(<<"c", "-", "d">>), Some(<<"c">>), <<"a", "b">>,
           <<"h", ":", "/", "/", "p", "/", "c", "-", "d">>, None, "up"),
     Check(Some(<<"a", "-", "z">>), None, <<"c">>,
           <<"h", ":", "/", "/", "p", "/", "b">>, None, "paused"),
     Check(None, None, <<"x">>, <<"h", "/", "a", "-", "b">>, None, "down"),
     Check(None, None, <<>>, <<>>, None, "up")}

\* what a ping is answered with: the body is not read
PingResponses ==
    {TransportError} \cup {HttpResponse(s, b) : s \in Statuses, b \in {NoBody, NotJson}}

EnvKeyValues == {EnvUnset, EnvNotUnicode, EnvSet(<<>>), EnvSet(<<"k", "1">>)}
EnvHomeValues == {EnvUnset, EnvNotUnicode, EnvSet(<<"/", "r">>), EnvSet(<<"/", "u">>)}
Envs == {[n \in {API_KEY_ENV, "HOME"} |-> IF n = "HOME" THEN h ELSE k] :
            k \in EnvKeyValues, h \in EnvHomeValues}

KeyfilePaths == {<<"/", "r", "/", ".", "h", "c", "h", "k">>,
                 <<"/", "u", "/", ".", "h", "c", "h", "k">>}
FileStates == {NoFile, Directory, RegularFile(<<"f">>), RegularFile(<<>>),
               UnopenableFile, NotUtf8File}
FileSystems == [KeyfilePaths -> FileStates]

\* the grace argument of the add command: absent, 0, 2, 8760, 1193046,
\* 1193047, 4294967295, 4294967296, "+2", "-1", "x" and ""
GraceArgs ==
    {None, Some(<<"0">>), Some(<<"2">>), Some(<<"8", "7", "6", "0">>),
     Some(<<"1", "1", "9", "3", "0", "4", "6">>), Some(<<"1", "1", "9", "3", "0", "4", "7">>),
     Some(<<"4", "2", "9", "4", "9", "6", "7", "2", "9", "5">>),
     Some(<<"4", "2", "9", "4", "9", "6", "7", "2", "9", "6">>),
     Some(<<"+", "2">>), Some(<<"-", "1">>), Some(<<"x">>), Some(<<>>)}

NoFlags == LsFlags(FALSE, FALSE, FALSE)
NoArgs == Args(None, None, None, None, None, None, None, NoFlags)

\* what the listing request of a command is answered with
CmdListResponses == {r \in ListResponses : r.status \in {0, 200, 500}}

\* what the second request of a command is answered with
CmdResponses ==
    {TransportError, HttpResponse(500, NotJson),
     HttpResponse(200, JsonCheck(Check(None, None, <<"x">>, <<"h", "/", "a", "-", "b">>,
                                       None, "paused")))}

DefaultWorld ==
    World(HttpResponse(200, JsonChecks(<<>>)), TransportError, FALSE, FALSE, 0,
          UtcInstant(2026, 11, 1, 0, 0, 0))

\* the invocations of pause, ping and del: `id` is required by clap
ActInvocations ==
    {[cmd |-> c, args |-> [NoArgs EXCEPT !.id = q],
      world |-> [DefaultWorld EXCEPT !.net1 = n1, !.net2 = n2]] :
        c \in {"pause", "ping", "del"}, q \in Queries \ {None},
        n1 \in CmdListResponses, n2 \in CmdResponses}

\* the invocations of add: `name` and `schedule` are required by clap
AddInvocations ==
    {[cmd |-> "add",
      args |-> [NoArgs EXCEPT !.name = Some(<<"x">>), !.schedule = Some(s), !.grace = g],
      world |-> [DefaultWorld EXCEPT !.net1 = n1, !.overflow_checks = oc]] :
        s \in Schedules, g \in GraceArgs, oc \in BOOLEAN,
        n1 \in {TransportError, HttpResponse(403, NotJson)}
               \cup {HttpResponse(200, JsonCheck(c)) : c \in AddedChecks}}

\* the invocations of ls
LsInvocations ==
    {[cmd |-> "ls", args |-> [NoArgs EXCEPT !.query = q, !.flags = f],
      world |-> [DefaultWorld EXCEPT !.net1 = n1, !.tty = t]] :
        q \in {None, Some(<<"b">>)},
        f \in {NoFlags, LsFlags(TRUE, FALSE, FALSE), LsFlags(FALSE, TRUE, TRUE)},
        t \in BOOLEAN, n1 \in CmdListResponses}

Invocations == ActInvocations \cup AddInvocations \cup LsInvocations

\* one invocation of each command, for the processes whose credential is not
\* the one of the variable
DefaultInvocations ==
    {[cmd |-> c, args |-> [NoArgs EXCEPT !.id = Some(<<"a">>), !.name = Some(<<"x">>),
                                        !.schedule = Some(<<"0", " ", "*", " ", "*", " ", "*", " ", "*">>)],
      world |-> [DefaultWorld EXCEPT
                    !.net1 = HttpResponse(200, JsonChecks(<<
                        Check(None, None, <<"a", "b">>, <<"h", "/", "c", "-", "d">>, None, "up")>>))]] :
        c \in {"ls", "add", "pause", "ping", "del"}}

ProcessEnv(key, home, file) ==
    [env |-> [n \in {API_KEY_ENV, "HOME"} |-> IF n = "HOME" THEN home ELSE key],
     fs  |-> [p \in KeyfilePaths |->
                 IF p = <<"/", "r", "/", ".", "h", "c", "h", "k">> THEN file ELSE NoFile]]

\* the process whose credential is the variable, set to k
VariableEnv(k) == ProcessEnv(EnvSet(k), EnvSet(<<"/", "r">>), RegularFile(<<"f">>))

\* the environments of a process whose credential, if it resolves, is k: from
\* the variable, from the key file, from a key file that ends in a line feed,
\* and the ones with no credential
ProcessEnvs(k) ==
    {VariableEnv(k),
     ProcessEnv(EnvSet(k), EnvUnset, NoFile),
     ProcessEnv(EnvUnset, EnvSet(<<"/", "r">>), RegularFile(k)),
     ProcessEnv(EnvUnset, EnvSet(<<"/", "r">>), RegularFile(k \o <<"\n">>)),
     ProcessEnv(EnvUnset, EnvSet(<<"/", "r">>), UnopenableFile),
     ProcessEnv(EnvUnset, EnvSet(<<"/", "r">>), NoFile),
     ProcessEnv(EnvUnset, EnvUnset, RegularFile(k))}

-----------------------------------------------------------------------------
(* The state machine.  client is the ApiClient; call is the call made on   *)
(* it and its inputs, requests the requests the call sent, response what   *)
(* the last request was answered with, stdout and stderr the lines the     *)
(* call printed on standard output and standard error, outcome what the    *)
(* call returned.                                                          *)
(* A process builds one client and makes one call (main and run of         *)
(* main.rs, and every test): the next call is made on a new client.        *)

\* no call made yet, so nothing returned
NotCalled == [kind |-> "none"]

Init ==
    /\ \E k \in ApiKeys :
          /\ client = new(BASE_URL, k)
          /\ call = [op |-> "new", api_key |-> k]
    /\ requests = <<>>
    /\ response = NoResponse
    /\ stdout = <<>>
    /\ stderr = <<>>
    /\ outcome = NotCalled

\* the next process, or test: ApiClient::new
New(api_key) ==
    /\ client' = new(BASE_URL, api_key)
    /\ call' = [op |-> "new", api_key |-> api_key]
    /\ requests' = <<>>
    /\ response' = NoResponse
    /\ stdout' = <<>>
    /\ stderr' = <<>>
    /\ outcome' = NotCalled

CallId ==
    /\ call.op = "new"
    /\ \E c \in IdChecks :
          /\ call' = [op |-> "id", check |-> c]
          /\ outcome' = id(c)
    /\ requests' = <<>>
    /\ response' = NoResponse
    /\ stdout' = <<>>
    /\ stderr' = <<>>
    /\ UNCHANGED client

CallShortId ==
    /\ call.op = "new"
    /\ \E c \in IdChecks :
          /\ call' = [op |-> "short_id", check |-> c]
          /\ outcome' = short_id(c)
    /\ requests' = <<>>
    /\ response' = NoResponse
    /\ stdout' = <<>>
    /\ stderr' = <<>>
    /\ UNCHANGED client

CallLastPingAt ==
    /\ call.op = "new"
    /\ \E c \in TsChecks, tz \in LocalOffsets :
          /\ call' = [op |-> "last_ping_at", check |-> c, tz |-> tz]
          /\ outcome' = last_ping_at(c, tz)
    /\ requests' = <<>>
    /\ response' = NoResponse
    /\ stdout' = <<>>
    /\ stderr' = <<>>
    /\ UNCHANGED client

CallHumanizedLastPingAt ==
    /\ call.op = "new"
    /\ \E c \in TsChecks, tz \in LocalOffsets, now \in Clocks :
          /\ call' = [op |-> "humanized_last_ping_at", check |-> c, tz |-> tz, now |-> now]
          /\ outcome' = humanized_last_ping_at(c, tz, now)
    /\ requests' = <<>>
    /\ response' = NoResponse
    /\ stdout' = <<>>
    /\ stderr' = <<>>
    /\ UNCHANGED client

CallAdd ==
    /\ call.op = "new"
    /\ \E name \in Names, schedule \in Schedules, grace \in GraceHours,
          tz \in TzArgs, tags \in TagArgs, overflow_checks \in BOOLEAN,
          net \in CheckResponses :
          LET r == add(client, name, schedule, grace, tz, tags, overflow_checks, net)
          IN  /\ call' = [op |-> "add", name |-> name, schedule |-> schedule,
                          grace |-> grace, tz |-> tz, tags |-> tags,
                          overflow_checks |-> overflow_checks]
              /\ requests' = r.requests
              /\ response' = IF r.requests = <<>> THEN NoResponse ELSE net
              /\ outcome' = r.outcome
    /\ stdout' = <<>>
    /\ stderr' = <<>>
    /\ UNCHANGED client

CallGet ==
    /\ call.op = "new"
    /\ \E query \in Queries, net \in ListResponses :
          LET r == get(client, query, net)
          IN  /\ call' = [op |-> "get", query |-> query]
              /\ requests' = r.requests
              /\ response' = net
              /\ outcome' = r.outcome
    /\ stdout' = <<>>
    /\ stderr' = <<>>
    /\ UNCHANGED client

CallFind ==
    /\ call.op = "new"
    /\ \E q \in Queries \ {None}, net \in ListResponses :
          LET r == find(client, q.v, net)
          IN  /\ call' = [op |-> "find", id |-> q.v]
              /\ requests' = r.requests
              /\ response' = net
              /\ stdout' = r.stdout
              /\ outcome' = r.outcome
    /\ stderr' = <<>>
    /\ UNCHANGED client

CallDelete ==
    /\ call.op = "new"
    /\ \E c \in ActedChecks, net \in CheckResponses :
          LET r == delete(client, c, net)
          IN  /\ call' = [op |-> "delete", check |-> c]
              /\ requests' = r.requests
              /\ response' = IF r.requests = <<>> THEN NoResponse ELSE net
              /\ outcome' = r.outcome
    /\ stdout' = <<>>
    /\ stderr' = <<>>
    /\ UNCHANGED client

CallPause ==
    /\ call.op = "new"
    /\ \E c \in ActedChecks, net \in CheckResponses :
          LET r == pause(client, c, net)
          IN  /\ call' = [op |-> "pause", check |-> c]
              /\ requests' = r.requests
              /\ response' = IF r.requests = <<>> THEN NoResponse ELSE net
              /\ outcome' = r.outcome
    /\ stdout' = <<>>
    /\ stderr' = <<>>
    /\ UNCHANGED client

CallPing ==
    /\ call.op = "new"
    /\ \E c \in ActedChecks, net \in PingResponses :
          LET r == ping(client, c, net)
          IN  /\ call' = [op |-> "ping", check |-> c]
              /\ requests' = r.requests
              /\ response' = IF r.requests = <<>> THEN NoResponse ELSE net
              /\ outcome' = r.outcome
    /\ stdout' = <<>>
    /\ stderr' = <<>>
    /\ UNCHANGED client

\* get_api_key, which run calls before it builds the client
CallGetApiKey ==
    /\ call.op = "new"
    /\ \E env \in Envs, fs \in FileSystems :
          LET r == get_api_key(env, fs)
          IN  /\ call' = [op |-> "get_api_key", env |-> env, fs |-> fs]
              /\ stdout' = r.stdout
              /\ outcome' = r.outcome
    /\ requests' = <<>>
    /\ response' = NoResponse
    /\ stderr' = <<>>
    /\ UNCHANGED client

\* one invocation of the program: main, from the subcommand to the exit.  The
\* client is the one run builds from the credential of the environment
Main ==
    /\ call.op = "new"
    /\ \E pe \in ProcessEnvs(client.api_key) :
       \E inv \in IF pe = VariableEnv(client.api_key) THEN Invocations
                  ELSE DefaultInvocations :
          \E r \in {main(inv.cmd, inv.args, pe.env, pe.fs, inv.world)} :
              /\ call' = [op |-> "main", cmd |-> inv.cmd, args |-> inv.args,
                          env |-> pe.env, fs |-> pe.fs, world |-> inv.world]
              /\ client' = IF r.client.some THEN r.client.v ELSE client
              /\ requests' = r.requests
              /\ response' = IF Len(r.requests) = 0 THEN NoResponse
                             ELSE IF Len(r.requests) = 1 THEN inv.world.net1
                             ELSE inv.world.net2
              /\ stdout' = r.stdout
              /\ stderr' = r.stderr
              /\ outcome' = r.outcome

Next ==
    \/ \E k \in ApiKeys : New(k)
    \/ CallId
    \/ CallShortId
    \/ CallLastPingAt
    \/ CallHumanizedLastPingAt
    \/ CallAdd
    \/ CallGet
    \/ CallFind
    \/ CallDelete
    \/ CallPause
    \/ CallPing
    \/ CallGetApiKey
    \/ Main

Spec == Init /\ [][Next]_vars

-----------------------------------------------------------------------------
(* What the claims speak of, stated apart from the operators of the model  *)

\* s is empty after trimming white space
IsBlank(s) == \A i \in 1..Len(s) : s[i] = " "

\* r is the text of u after its last "/"
IsTextAfterLastSlash(r, u) ==
    /\ \A j \in 1..Len(r) : r[j] # "/"
    /\ \E k \in 1..Len(u) : u[k] = "/" /\ r = SubSeq(u, k + 1, Len(u))

\* r is the last "/"-delimited segment of u (u itself when u has no "/")
IsLastSegment(r, u) ==
    \/ IsTextAfterLastSlash(r, u)
    \/ r = u /\ \A j \in 1..Len(u) : u[j] # "/"

\* p is the part of s before its first "-" (s itself when s has no "-")
IsBeforeFirstHyphen(p, s) ==
    /\ Len(p) <= Len(s)
    /\ p = SubSeq(s, 1, Len(p))
    /\ \A j \in 1..Len(p) : p[j] # "-"
    /\ Len(p) = Len(s) \/ s[Len(p) + 1] = "-"

\* q occurs in s, character for character
IsSubstring(q, s) ==
    \E i \in 0..Len(s) : i + Len(q) <= Len(s) /\ SubSeq(s, i + 1, i + Len(q)) = q

\* a check as the service describes it, without the derived id and short_id
Payload(c) ==
    [name |-> c.name, ping_url |-> c.ping_url, last_ping |-> c.last_ping,
     status |-> c.status]

\* the k-th smallest member of a set of numbers
Kth(S, k) == CHOOSE i \in S : Cardinality({j \in S : j <= i}) = k

\* the kind of a returned failure, as far as a caller can tell it from what the
\* failure carries: a status if it has one, else the text of its message
FailureKind(o) ==
    IF "status" \in DOMAIN o THEN "api_status"
    ELSE IF o.val[1] = "request failed with " THEN "transport"
    ELSE IF o.val[1] \in {"<reqwest error>", "JSON: "} THEN "decode"
    ELSE "validation"

\* the body is the JSON the operation expects
IsExpectedJson(op, body) ==
    IF op = "get" THEN body.kind = "json_list" ELSE body.kind = "json_check"

\* the key file of the home directory h
KeyFileOf(h) == h \o <<"/", ".", "h", "c", "h", "k">>

\* the failure tells to use setkey or to set the environment variable
IsSetKeyInstruction(o) ==
    /\ o.kind = "err"
    /\ o.val = <<"Use setkey command or set ", "HCHK_API_KEY", " environment variable">>

-----------------------------------------------------------------------------
(* The claims *)

\* C1: for every name that is empty after trimming, add returns a validation
\* failure whose message is "name cannot be empty", and sends no request.
C1_EmptyNameIsRejected ==
    (call.op = "add" /\ IsBlank(call.name)) =>
        /\ outcome.kind = "err"
        /\ \E i \in 1..Len(outcome.val) : outcome.val[i] = "name cannot be empty"
        /\ requests = <<>>

\* C2: for a non-empty name, add returns a validation failure and sends no
\* request when graceHours is 0 or above 8760 (24 * 365); for graceHours 1 and
\* 8760 the validation passes and the creation request is sent.
C2_GraceRangeIsValidated ==
    (call.op = "add" /\ ~IsBlank(call.name)) =>
        /\ (call.grace = U32(0, 0) \/ call.grace.hi > 0 \/ call.grace.lo > 24 * 365) =>
              (outcome.kind = "err" /\ requests = <<>>)
        /\ call.grace \in {U32(0, 1), U32(0, 24 * 365)} => Len(requests) = 1

\* C3: every add that reaches the network sends one POST to the base URL whose
\* body is exactly {name, schedule, grace = graceHours * 3600, tags or "",
\* tz or "UTC", unique = ["name"]}, name and schedule unchanged.
C3_CreationRequest ==
    (call.op = "add" /\ requests # <<>>) =>
        /\ Len(requests) = 1
        /\ requests[1].method = "POST"
        /\ requests[1].url = client.base_url
        /\ requests[1].body.some
        /\ LET b == requests[1].body.v
           IN  /\ DOMAIN b = {"name", "schedule", "grace", "tags", "tz", "unique"}
               /\ b.name = call.name
               /\ b.schedule = call.schedule
               /\ [top |-> 0, hi |-> b.grace.hi, lo |-> b.grace.lo] = WideMul3600(call.grace)
               /\ b.tags = (IF call.tags.some THEN call.tags.v ELSE <<>>)
               /\ b.tz = (IF call.tz.some THEN call.tz.v ELSE <<"U", "T", "C">>)
               /\ b.unique = <<<<"n", "a", "m", "e">>>>

\* C4: id() returns the explicit id when the Check carries one; otherwise it
\* returns exactly the text after the last "/" of ping_url.
C4_IdIsExplicitOrAfterLastSlash ==
    call.op = "id" =>
        /\ outcome.kind = "ok"
        /\ IF call.check.id.some
           THEN outcome.val = call.check.id.v
           ELSE (\E k \in 1..Len(call.check.ping_url) : call.check.ping_url[k] = "/")
                    => IsTextAfterLastSlash(outcome.val, call.check.ping_url)

C4_Witness ==
    /\ call.op = "id"
    /\ ~call.check.id.some
    /\ call.check.ping_url = <<"/", "/", "a", "/", "-">>
    /\ outcome = Ok(<<"-">>)

\* C5: id() never fails, whatever ping_url is (also without any "/"), and for
\* a Check with no explicit id and an empty ping_url it returns the empty text.
C5_IdNeverPanics ==
    call.op = "id" =>
        /\ outcome.kind # "panic"
        /\ (~call.check.id.some /\ call.check.ping_url = <<>>) => outcome = Ok(<<>>)
        /\ (~call.check.id.some /\ "/" \notin {call.check.ping_url[k] : k \in 1..Len(call.check.ping_url)})
              => outcome = Ok(call.check.ping_url)

C5_Witness ==
    /\ call.op = "id"
    /\ ~call.check.id.some
    /\ call.check.ping_url = <<>>
    /\ outcome = Ok(<<>>)

\* C6: short_id() returns the explicit short form when there is one; otherwise
\* it is the part before the first "-" of what id() returns for the same Check
\* (all of it without a "-"), be that id explicit or derived from ping_url.
C6_ShortIdIsPrefixOfId ==
    call.op = "short_id" =>
        /\ outcome.kind = "ok"
        /\ IF call.check.short_id.some
           THEN outcome.val = call.check.short_id.v
           ELSE IsBeforeFirstHyphen(outcome.val, id(call.check).val)

\* C7: last_ping_at() never fails: for an absent or unparsable last_ping it
\* returns the sentinel instant 1901-01-01T00:00Z, for a parsable one that
\* instant.
C7_LastPingAtNeverFails ==
    call.op = "last_ping_at" =>
        /\ outcome.kind = "ok"
        /\ LET ts     == call.check.last_ping
               parsed == IF ts.some THEN parse_utc(ts.v) ELSE None
               want   == IF parsed.some THEN parsed.v ELSE UtcInstant(1901, 1, 1, 0, 0, 0)
           IN  outcome.val.min = want.min /\ outcome.val.sec = want.sec

\* C8: humanized_last_ping_at() is exactly "never" when the instant of
\* last_ping_at() has a year before 1950 (so when last_ping is absent), and a
\* non-empty phrase other than "never" for a parsable last_ping of 1950 or later.
C8_NeverBefore1950 ==
    (call.op = "humanized_last_ping_at" /\ last_ping_at(call.check, call.tz).kind = "ok") =>
        /\ outcome.kind = "ok"
        /\ IF year(last_ping_at(call.check, call.tz).val) < 1950
           THEN outcome.val = <<"never">>
           ELSE outcome.val # <<"never">> /\ outcome.val # <<>>

\* C9: a successful get(query) returns the checks of the service's list whose
\* name or id() contains query (case-sensitive), in the service's order and
\* nothing else; without a query, the whole list in the service's order.
\* (The checks are compared as Payload: get rewrites id and short_id.)
C9_GetIsFilteredSubsequence ==
    (call.op = "get" /\ outcome.kind = "ok") =>
        LET listed == response.body.checks
            kept   == {i \in 1..Len(listed) :
                          \/ ~call.query.some
                          \/ IsSubstring(call.query.v, listed[i].name)
                          \/ IsSubstring(call.query.v, id(listed[i]).val)}
        IN  /\ Len(outcome.val) = Cardinality(kept)
            /\ \A k \in 1..Len(outcome.val) :
                  Payload(outcome.val[k]) = Payload(listed[Kth(kept, k)])

C9_Witness ==
    /\ call.op = "get"
    /\ call.query = Some(<<"A">>)
    /\ outcome.kind = "ok"
    /\ Len(response.body.checks) = 2
    /\ response.body.checks[1].name = <<"a", "b">>
    /\ response.body.checks[2].name = <<"A", "b">>
    /\ Len(outcome.val) = 1
    /\ outcome.val[1].name = <<"A", "b">>

\* C10: every Check a successful get returns has id and short_id resolved; for
\* a payload carrying only ping_url, id() of the returned Check is the last
\* "/"-segment of ping_url and short_id() the part of it before the first "-".
C10_ReturnedChecksAreResolved ==
    (call.op = "get" /\ outcome.kind = "ok") =>
        \A k \in 1..Len(outcome.val) :
            LET c == outcome.val[k]
            IN  /\ c.id.some /\ c.short_id.some
                /\ (\E i \in 1..Len(response.body.checks) :
                       /\ Payload(response.body.checks[i]) = Payload(c)
                       /\ ~response.body.checks[i].id.some
                       /\ ~response.body.checks[i].short_id.some)
                   => /\ id(c).kind = "ok" /\ short_id(c).kind = "ok"
                      /\ IsLastSegment(id(c).val, c.ping_url)
                      /\ IsBeforeFirstHyphen(short_id(c).val, id(c).val)

C10_Witness ==
    /\ call.op = "get"
    /\ outcome.kind = "ok"
    /\ Len(outcome.val) = 1
    /\ response.body.checks[1] =
          Check(None, None, <<"a", "b">>, <<"h", "/", "c", "-", "d">>, None, "up")
    /\ outcome.val[1].id = Some(<<"c", "-", "d">>)
    /\ outcome.val[1].short_id = Some(<<"c">>)

\* C11: the values id() and short_id() return for a Check never change over
\* its lifetime: for every Check a successful get hands back, id() and
\* short_id() are what they were for the same Check as decoded from the
\* service's list (the value the filter of get saw), also when the payload
\* carries an explicit id or short_id.
C11_IdsNeverChange ==
    (call.op = "get" /\ outcome.kind = "ok") =>
        LET listed == response.body.checks
            kept   == {i \in 1..Len(listed) :
                          \/ ~call.query.some
                          \/ IsSubstring(call.query.v, listed[i].name)
                          \/ IsSubstring(call.query.v, id(listed[i]).val)}
        IN  \A k \in 1..Len(outcome.val) :
                /\ id(outcome.val[k]) = id(listed[Kth(kept, k)])
                /\ short_id(outcome.val[k]) = short_id(listed[Kth(kept, k)])

\* C12: find(fragment) returns absent when get(fragment) fails, absent when
\* get succeeds with no match, and otherwise the first element of get's result,
\* which is the first match in the service's order; it never returns a failure.
C12_FindIsFirstOfGet ==
    call.op = "find" =>
        LET g      == get(client, Some(call.id), response).outcome
            listed == response.body.checks
            kept   == {i \in 1..Len(listed) :
                          \/ IsSubstring(call.id, listed[i].name)
                          \/ IsSubstring(call.id, id(listed[i]).val)}
        IN  /\ outcome.kind = "ok"
            /\ IF g.kind # "ok" THEN ~outcome.val.some
               ELSE IF Len(g.val) = 0 THEN ~outcome.val.some
               ELSE /\ outcome.val = Some(g.val[1])
                    /\ Payload(outcome.val.v) = Payload(listed[Min(kept)])

C12_Witness ==
    /\ call.op = "find"
    /\ call.id = <<"b">>
    /\ Len(response.body.checks) = 2
    /\ response.body.checks[1].name = <<"a", "b">>
    /\ response.body.checks[2].name = <<"A", "b">>
    /\ outcome.kind = "ok"
    /\ outcome.val.some
    /\ outcome.val.v.name = <<"a", "b">>

\* C13: find returns absent whenever the listing request is answered with a
\* status outside 2xx, whatever the body of the response is.
C13_FindAbsentOnNon2xx ==
    (call.op = "find" /\ response.kind = "response" /\ response.status \notin 200..299) =>
        (outcome.kind = "ok" /\ ~outcome.val.some)

\* C14: for add, get, pause and delete, a response whose status is outside 2xx
\* makes the operation return a failure that carries that status, never a
\* Check or a list, whatever the body decodes to.
C14_Non2xxIsAStatusFailure ==
    (/\ call.op \in {"add", "get", "pause", "delete"}
     /\ response.kind = "response"
     /\ response.status \notin 200..299) =>
        /\ outcome.kind = "err"
        /\ "status" \in DOMAIN outcome
        /\ outcome.status = response.status

\* C15: ping(check), for a ping_url that is a URL, sends one GET request to
\* check.ping_url and returns success if and only if a response with a 2xx
\* status arrives; a non-2xx response or a transport failure is a failure.
C15_PingSucceedsOn2xxOnly ==
    (call.op = "ping" /\ into_url(call.check.ping_url)) =>
        /\ Len(requests) = 1
        /\ requests[1].method = "GET"
        /\ requests[1].url = call.check.ping_url
        /\ requests[1].body = None
        /\ outcome.kind \in {"ok", "err"}
        /\ outcome.kind = "ok" <=>
              (response.kind = "response" /\ response.status \in 200..299)

\* C16: every operation of ApiClient ends in a result value or in a failure of
\* exactly one of the kinds validation, transport, API-status, decode, which the
\* caller can tell from the failure: a connection failure is a transport
\* failure, a status outside 2xx an API-status failure, and a 2xx response with
\* an undecodable body a decode failure.
C16_FailuresAreClassified ==
    call.op \in {"add", "get", "delete", "pause", "ping"} =>
        /\ outcome.kind \in {"ok", "err"}
        /\ response.kind = "transport_error" =>
              (outcome.kind = "err" /\ FailureKind(outcome) = "transport")
        /\ (response.kind = "response" /\ response.status \notin 200..299) =>
              (outcome.kind = "err" /\ FailureKind(outcome) = "api_status")
        /\ (/\ response.kind = "response" /\ response.status \in 200..299
            /\ call.op # "ping" /\ ~IsExpectedJson(call.op, response.body)) =>
              (outcome.kind = "err" /\ FailureKind(outcome) = "decode")

\* C17: every request an operation of ApiClient issues carries, as X-Api-Key,
\* the key given to ApiClient::new, and no operation changes the client.
C17_RequestsCarryTheKey ==
    [][/\ call'.op = "new" => client'.api_key = call'.api_key
       /\ call'.op # "new" =>
             /\ client' = client
             /\ \A i \in 1..Len(requests') : requests'[i].key = call.api_key]_vars

C17_Witness ==
    /\ call.op = "ping"
    /\ Len(requests) = 1
    /\ requests[1].key = <<"k", "2">>
    /\ client.api_key = <<"k", "2">>

\* C18: each of add, get, find, pause, ping and delete issues at most one
\* request per call; a failed request is not sent again.
C18_AtMostOneRequest ==
    call.op \in {"add", "get", "find", "pause", "ping", "delete"} =>
        Len(requests) <= 1

C18_Witness ==
    /\ call.op = "delete"
    /\ response.kind = "transport_error"
    /\ outcome.kind = "err"
    /\ Len(requests) = 1

\* C19: delete(check) sends DELETE to the base URL followed by check.id(),
\* pause(check) sends POST to the base URL followed by check.id() and "/pause";
\* on a 2xx response with a check payload each returns the Check decoded from
\* the body, not its argument.
C19_DeleteAndPauseRequests ==
    call.op \in {"delete", "pause"} =>
        /\ Len(requests) = 1
        /\ requests[1].method = (IF call.op = "delete" THEN "DELETE" ELSE "POST")
        /\ requests[1].url =
              client.base_url \o id(call.check).val
                  \o (IF call.op = "pause" THEN <<"/", "p", "a", "u", "s", "e">> ELSE <<>>)
        /\ (/\ response.kind = "response" /\ response.status \in 200..299
            /\ response.body.kind = "json_check") =>
              outcome = Ok(response.body.check.v)

C19_Witness ==
    /\ call.op = "pause"
    /\ call.check.id = Some(<<"a", "-", "z">>)
    /\ requests[1].url = BASE_URL \o <<"a", "-", "z", "/", "p", "a", "u", "s", "e">>
    /\ response.kind = "response" /\ response.status = 200
    /\ response.body.kind = "json_check"
    /\ outcome.kind = "ok"
    /\ outcome.val = response.body.check.v
    /\ Payload(outcome.val) # Payload(call.check)

-----------------------------------------------------------------------------
(* The invocations of the commands: call.op = "main" *)

\* the answer to the i-th request of the invocation
Answer(i) == IF i = 1 THEN call.world.net1 ELSE call.world.net2

\* the operation of ApiClient that sends the i-th request of the invocation
OperationOf(i) ==
    IF call.cmd = "ls" THEN "get"
    ELSE IF call.cmd = "add" THEN "add"
    ELSE IF i = 1 THEN "get"
    ELSE IF call.cmd = "del" THEN "delete"
    ELSE call.cmd

\* the process has no credential: the variable is not set to a text, and there
\* is no home directory or no readable key file in it
HasNoCredential ==
    /\ call.env[API_KEY_ENV].kind # "set"
    /\ \/ call.env["HOME"].kind # "set"
       \/ file_at(call.fs, KeyFileOf(call.env["HOME"].v)).kind # "file"

\* the i-th request is answered with a failure: no response, a status outside
\* 2xx, or a body that is not the JSON its operation expects
AnswerFails(i) ==
    \/ Answer(i).kind = "transport_error"
    \/ Answer(i).status \notin 200..299
    \/ OperationOf(i) # "ping" /\ ~IsExpectedJson(OperationOf(i), Answer(i).body)

\* the checks of the listing l that the fragment q matches, by name or by id()
Matches(q, l) ==
    {i \in 1..Len(l) : IsSubstring(q, l[i].name) \/ IsSubstring(q, id(l[i]).val)}

\* pause, ping or del: the listing is answered, and no check of it matches
FindMatchesNothing ==
    /\ call.cmd \in {"pause", "ping", "del"}
    /\ Len(requests) >= 1
    /\ ~AnswerFails(1)
    /\ Matches(call.args.id.v, Answer(1).body.checks) = {}

\* C21: an invocation exits with code 0 or with code 1; it exits with code 1,
\* with a message on standard error, whenever a step of the command fails: no
\* credential resolves, a request is answered with a failure, or find returns
\* absent; so it exits with code 0 only when no step failed.
C21_ExitCodes ==
    call.op = "main" =>
        /\ outcome \in {Exit(0), Exit(1)}
        /\ outcome = Exit(1) => stderr # <<>>
        /\ (\/ HasNoCredential
            \/ \E i \in 1..Len(requests) : AnswerFails(i)
            \/ FindMatchesNothing) => outcome = Exit(1)


\* what find returns for the fragment of a pause, ping or del invocation
Found == find(client, call.args.id.v, call.world.net1).outcome

\* C22: in every pause, ping and del invocation the first request is the
\* listing request of find and at most one request follows it, the mutating
\* one, also when the fragment matches several checks; the mutating request is
\* sent only if find returned a check; when find returns absent the command
\* fails with "check not found" and the listing request is the only request.
C22_ListingThenOneMutation ==
    (call.op = "main" /\ call.cmd \in {"pause", "ping", "del"}) =>
        /\ Len(requests) <= 2
        /\ Len(requests) >= 1 =>
              requests[1] = Request("GET", BASE_URL, client.api_key, None)
        /\ Len(requests) = 2 =>
              /\ Found.kind = "ok" /\ Found.val.some
              /\ requests[2] # requests[1]
              /\ requests[2].method = (IF call.cmd = "del" THEN "DELETE"
                                       ELSE IF call.cmd = "pause" THEN "POST" ELSE "GET")
        /\ (Len(requests) >= 1 /\ Found = Ok(None)) =>
              /\ Len(requests) = 1
              /\ outcome = Exit(1)
              /\ stderr = <<Line("Error: {}",
                                 <<Err(<<call.args.id.v, ": check not found">>)>>)>>

C22_Witness ==
    /\ call.op = "main" /\ call.cmd = "del"
    /\ Cardinality(Matches(call.args.id.v, Answer(1).body.checks)) >= 2
    /\ Len(requests) = 2
    /\ requests[2].method = "DELETE"
    /\ outcome = Exit(0)


\* C23: when the listing response has a 2xx status and a body that is valid
\* JSON but has no `checks` field, or whose `checks` is not a list of
\* well-formed check payloads, get returns a decode failure, never a list.
C23_MalformedListingIsADecodeFailure ==
    (/\ call.op = "get"
     /\ response.kind = "response" /\ response.status \in 200..299
     /\ response.body.kind \in {"json_other", "json_bad_list"}) =>
        /\ outcome.kind = "err"
        /\ FailureKind(outcome) = "decode"

C23_Witness ==
    /\ call.op = "get"
    /\ response = HttpResponse(200, JsonBadChecks)
    /\ Len(requests) = 1
    /\ outcome = Err(<<"JSON: ", "<serde error>">>)


\* C24: when the check find returns to the pause command has the status
\* "paused", the command sends no pause request: the listing request is the
\* only request of the invocation, the command reports that the check is
\* already paused and the process exits with code 0.
C24_PausedIsNotPausedAgain ==
    (/\ call.op = "main" /\ call.cmd = "pause"
     /\ Len(requests) >= 1
     /\ Found.kind = "ok" /\ Found.val.some
     /\ Found.val.v.status = "paused") =>
        /\ requests = <<Request("GET", BASE_URL, client.api_key, None)>>
        /\ stdout = <<Line("{}: check is already paused", <<Found.val.v.name>>)>>
        /\ stderr = <<>>
        /\ outcome = Exit(0)

C24_Witness ==
    /\ call.op = "main" /\ call.cmd = "pause"
    /\ call.args.id = Some(<<"a", "-">>)
    /\ Len(requests) = 1
    /\ Found.kind = "ok" /\ Found.val.some
    /\ Found.val.v.name = <<"c">>
    /\ Found.val.v.status = "paused"
    /\ stdout = <<Line("{}: check is already paused", <<<<"c">>>>)>>
    /\ outcome = Exit(0)


\* C25: the identifier a pause or del command puts in the URL of its mutating
\* request is the id() the found check, the first check of the listing that
\* the fragment matches, had when get matched it: the explicit id of the
\* payload if it carries one, else the last segment of ping_url.
C25_ActsUnderTheMatchedId ==
    (call.op = "main" /\ call.cmd \in {"pause", "del"} /\ Len(requests) = 2) =>
        LET listed  == Answer(1).body.checks
            matched == listed[Kth(Matches(call.args.id.v, listed), 1)]
        IN  requests[2].url =
                BASE_URL \o id(matched).val
                    \o (IF call.cmd = "pause" THEN <<"/", "p", "a", "u", "s", "e">> ELSE <<>>)


\* the grace argument of the add invocation, as text ("1" when absent)
GraceText == IF call.args.grace.some THEN call.args.grace.v ELSE <<"1">>

\* C26: for every grace argument of the add command that parses as an unsigned
\* 32-bit integer, in a process whose credential is the variable's, the
\* command neither panics nor wraps: it sends the creation request, whose
\* grace is exactly graceHours * 3600.
C26_GraceSecondsFitU32 ==
    (/\ call.op = "main" /\ call.cmd = "add"
     /\ call.env[API_KEY_ENV].kind = "set"
     /\ parse_u32(GraceText).some) =>
        /\ outcome # Exit(101)
        /\ Len(requests) = 1
        /\ requests[1].body.some
        /\ LET g == requests[1].body.v.grace
           IN  [top |-> 0, hi |-> g.hi, lo |-> g.lo] = WideMul3600(parse_u32(GraceText).v)

====
